---- MODULE Spec2Model ----
(***************************************************************************)
(* State-machine model of the e-commerce backend in src/main.py.           *)
(*                                                                         *)
(* The document store is the state: the product, cart, order and review    *)
(* collections.  Every HTTP handler runs in a request worker.  add_to_cart *)
(* and checkout, the read-modify-write handlers, are split at their        *)
(* database calls, so that requests of different workers interleave        *)
(* exactly where the code lets them; the other handlers are one step       *)
(* each.  Money is kept in mills (1/1000 of a dollar) so that              *)
(* rounding to two decimals is an operation that does something.           *)
(***************************************************************************)
EXTENDS Integers, Sequences, FiniteSets, TLC

\* ------------------------------------------------------------------ bounds
\* add-to-cart and checkout requests accepted in one behaviour
MaxRequests == 3

\* ------------------------------------------------------ program constants
MinQuantity == 1
MaxQuantity == 10
HttpOk == 200
HttpBadRequest == 400
HttpNotFound == 404
HttpServerError == 500

\* A product_id string is modelled by an integer: n in 0 .. 99 is the
\* 24 lower-case hex digits that str() gives for the ObjectId n, n + 100 is
\* the same digits written in upper case, a negative number is a string
\* that is no ObjectId.
UpperCase(id) == id + 100

\* ObjectId.is_valid(product_id)
IsValidObjectId(id) == id >= 0

\* ObjectId(product_id): the hex digits are parsed whatever their case
ObjectId(id) == id % 100

\* str(oid), as to_str_id and checkout write an _id
Str(oid) == oid

\* ------------------------------------------------------------ input sets
Workers == {1, 2}
Sessions == {"s1", "s2"}
\* -1: a string ObjectId.is_valid rejects; 0: a well-formed id of no document;
\* 1, 2: the ids the store hands to the first two seeded products
ProductIdInputs == {-1, 0, 1, 2}
QuantityInputs == {-2, 0, 3, 4, 99}
\* the add-to-cart payloads sent: every quantity on product 1 of session s1,
\* one quantity on the other product, the other session and the unknown ids
AddInputs ==
    {[session_id |-> "s1", product_id |-> 1, quantity |-> q] : q \in QuantityInputs}
    \cup {[session_id |-> s, product_id |-> p, quantity |-> 4] :
             s \in Sessions, p \in ProductIdInputs}
\* the review payloads sent (user_name and comment are carried nowhere).
\* Among the cart requests: one rating on product 1 and on a malformed id
ReviewInputs == {[product_id |-> p, rating |-> 5] : p \in {-1, 1}}
\* On their own: three ratings on product 1, one on its id in upper case,
\* and the unknown ids
RatingInputs == {3, 4, 5}
ReviewInputsWide ==
    {[product_id |-> 1, rating |-> r] : r \in RatingInputs}
    \cup {[product_id |-> p, rating |-> 5] : p \in {UpperCase(1), -1, 0}}
\* the ids asked of GET /products/{product_id}: among the cart requests,
\* and on their own
GetProductInputs == {-1, 1}
GetProductInputsWide == {-1, 0, 1, UpperCase(1)}
\* products an operator edits out of band, and the price set: 10.004
AdminProducts == {1}
AdminPrices == {10004}

\* ----------------------------------------------------------------- state
VARIABLES
    product,    \* product collection: _id -> document
    cart,       \* cart collection: set of documents [_id, session_id, items]
    order,      \* order collection, in insertion order
    review,     \* review collection, in insertion order
    nextOid,    \* next _id the store generates for a product
    cartOid,    \* next _id the store generates for a cart
    pc,         \* per worker: where its handler stands
    loc,        \* per worker: the handler's local variables
    resp,       \* the response on the wire, NoResponse when there is none
    acked,      \* history: the lines [session_id, product_id] that a 200 of
                \* add-to-cart has acknowledged
    born,       \* history: per session, how many times its cart went from
                \* absent to present
    nreq        \* add-to-cart, checkout and review requests accepted so far

vars == <<product, cart, order, review, nextOid, cartOid, pc, loc, resp,
          acked, born, nreq>>

\* ------------------------------------------------------------- utilities
Max(a, b) == IF a >= b THEN a ELSE b
Min(a, b) == IF a <= b THEN a ELSE b

\* a dict that has no "_id" key
NoId == 0

\* the demo list of seed_products: title, price in mills, rating in
\* hundredths of a star
DemoProducts ==
    << [title |-> "Echo Dot (5th Gen)",          price |-> 49990,  rating |-> 440, in_stock |-> TRUE],
       [title |-> "Noise Cancelling Headphones", price |-> 199000, rating |-> 450, in_stock |-> TRUE],
       [title |-> "Stainless Steel Bottle",      price |-> 19990,  rating |-> 420, in_stock |-> TRUE],
       [title |-> "Running Shoes",               price |-> 89000,  rating |-> 430, in_stock |-> TRUE],
       [title |-> "Office Chair",                price |-> 159000, rating |-> 410, in_stock |-> TRUE] >>

\* Clamp without the upper limit
ClampNoCeiling(q) == Max(MinQuantity, q)

\* max(1, min(10, q))
Clamp(q) == Max(MinQuantity, Min(MaxQuantity, q))

\* Round2 that cuts the third decimal off
Round2Truncating(m) == (m \div 10) * 10

\* round(total, 2) on an amount in mills: the nearest multiple of 10 mills
Round2(m) == ((m + 5) \div 10) * 10

\* FirstIndex that looks at the first line only
FirstIndexHeadOnly(items, pid, i) ==
    IF i <= Len(items) /\ items[i].product_id = pid THEN i ELSE 0

\* position of the first line of items whose product_id is pid, 0 if none
RECURSIVE FirstIndex(_, _, _)
FirstIndex(items, pid, i) ==
    IF i > Len(items) THEN 0
    ELSE IF items[i].product_id = pid THEN i
    ELSE FirstIndex(items, pid, i + 1)

\* AddOrUpdate that overwrites the quantity of an existing line
AddOrUpdateOverwrite(items, pid, qty) ==
    LET i == FirstIndex(items, pid, 1) IN
    IF i # 0
    THEN [items EXCEPT ![i].quantity = Clamp(qty)]
    ELSE Append(items, [product_id |-> pid, quantity |-> Clamp(qty)])

\* the "Add or update" block of add_to_cart
AddOrUpdate(items, pid, qty) ==
    LET i == FirstIndex(items, pid, 1) IN
    IF i # 0
    THEN [items EXCEPT ![i].quantity = Clamp(items[i].quantity + qty)]
    ELSE Append(items, [product_id |-> pid, quantity |-> Clamp(qty)])

\* CartsOf that does not filter by session
CartsOfAnySession(s) == cart

\* collection.find({"session_id": s})
CartsOf(s) == {c \in cart : c.session_id = s}

\* values of an idle worker
NoLocal == [session_id |-> "", product_id |-> NoId, quantity |-> 0,
            cart |-> [_id |-> NoId, session_id |-> "", items |-> <<>>],
            idx |-> 0, items |-> <<>>, total |-> 0]
NoResponse == [op |-> "none", status |-> 0, detail |-> "", body |-> <<>>]

Response(op, status, detail, body) ==
    [op |-> op, status |-> status, detail |-> detail, body |-> body]

\* no response is on the wire.  No handler reads resp: a response is taken
\* off the wire (Deliver) before the next step only to keep it from
\* multiplying the states that follow.
Quiet == resp = NoResponse

\* the server hands a new request to its first free worker
Free(w) == Quiet /\ pc[w] = "idle" /\ \A v \in Workers : v < w => pc[v] # "idle"

\* the handler of worker w stands at label l
At(w, l) == Quiet /\ pc[w] = l

\* the handler of worker w returns (or raises) r
Finish(w, r) ==
    /\ pc' = [pc EXCEPT ![w] = "idle"]
    /\ loc' = [loc EXCEPT ![w] = NoLocal]
    /\ resp' = r

\* the handler of worker w moves on to the step at label l
Goto(w, l) ==
    /\ pc' = [pc EXCEPT ![w] = l]
    /\ UNCHANGED resp

\* ------------------------------------------------------------------ Init
Init ==
    /\ product = <<>>
    /\ cart = {}
    /\ order = <<>>
    /\ review = <<>>
    /\ nextOid = 1
    /\ cartOid = 1
    /\ pc = [w \in Workers |-> "idle"]
    /\ loc = [w \in Workers |-> NoLocal]
    /\ resp = NoResponse
    /\ acked = {}
    /\ born = [s \in Sessions |-> 0]
    /\ nreq = 0

\* -------------------------------------------------------------- POST /seed
\* create_document("product", p) for every p of the demo list
InsertDemo ==
    [id \in (DOMAIN product) \cup (nextOid .. nextOid + Len(DemoProducts) - 1) |->
        IF id \in DOMAIN product THEN product[id] ELSE DemoProducts[id - nextOid + 1]]

\* the "seeded" field of the seed response
SeededFlag(existing) == TRUE

\* seed_products that inserts the demo list whatever the collection holds
SeedAlwaysInserts(w) ==
    /\ Free(w)
    /\ product' = InsertDemo
    /\ nextOid' = nextOid + Len(DemoProducts)
    /\ Finish(w, Response("seed", HttpOk, "",
                 [seeded |-> TRUE, count |-> Cardinality(DOMAIN product')]))
    /\ UNCHANGED <<cart, order, review, cartOid, acked, born, nreq>>

seed_products(w) ==
    /\ Free(w)
    /\ LET existing == Cardinality(DOMAIN product) IN
       /\ IF existing = 0
          THEN /\ product' = InsertDemo
               /\ nextOid' = nextOid + Len(DemoProducts)
          ELSE UNCHANGED <<product, nextOid>>
       /\ Finish(w, Response("seed", HttpOk, "",
                    [seeded |-> SeededFlag(existing),
                     count |-> Cardinality(DOMAIN product')]))
    /\ UNCHANGED <<cart, order, review, cartOid, acked, born, nreq>>

\* ---------------------------------------------------------- POST /cart/add
\* add_to_cart that does not look the product up
AddToCartNoProductCheck(w, p, q, s) ==
    /\ Free(w)
    /\ nreq < MaxRequests
    /\ nreq' = nreq + 1
    /\ loc' = [loc EXCEPT ![w] = [NoLocal EXCEPT !.session_id = s,
                                   !.product_id = p, !.quantity = q]]
    /\ Goto(w, "add_find_cart")
    /\ UNCHANGED <<product, cart, order, review, nextOid, cartOid, acked, born>>

\* "Ensure product exists"
add_to_cart(w, p, q, s) ==
    /\ Free(w)
    /\ IF IsValidObjectId(p) /\ ObjectId(p) \in DOMAIN product
       THEN /\ nreq < MaxRequests
            /\ nreq' = nreq + 1
            /\ loc' = [loc EXCEPT ![w] = [NoLocal EXCEPT !.session_id = s,
                                           !.product_id = p, !.quantity = q]]
            /\ Goto(w, "add_find_cart")
       ELSE /\ Finish(w, Response("add", HttpNotFound,
                                  "Product not found", <<>>))
            /\ UNCHANGED nreq
    /\ UNCHANGED <<product, cart, order, review, nextOid, cartOid, acked, born>>

\* cart = cart_col.find_one(...); if not cart: cart = {session_id, items: []}
add_to_cart_find(w) ==
    /\ At(w, "add_find_cart")
    /\ LET s == loc[w].session_id IN
       \/ /\ CartsOf(s) = {}
          /\ loc' = [loc EXCEPT ![w].cart =
                        [_id |-> NoId, session_id |-> s, items |-> <<>>]]
       \/ \E c \in CartsOf(s) : loc' = [loc EXCEPT ![w].cart = c]
    /\ Goto(w, "add_update")
    /\ UNCHANGED <<product, cart, order, review, nextOid, cartOid, acked, born, nreq>>

\* MergedCart that merges into the cart stored now, not into the cart read
MergedCartOfStored(w) ==
    LET s == loc[w].session_id
        cur == IF CartsOf(s) = {}
               THEN [_id |-> NoId, session_id |-> s, items |-> <<>>]
               ELSE CHOOSE c \in CartsOf(s) : TRUE
    IN [cur EXCEPT !.items = AddOrUpdate(@, loc[w].product_id, loc[w].quantity)]

\* the cart dict after the merge loop of add_to_cart
MergedCart(w) ==
    [loc[w].cart EXCEPT !.items = AddOrUpdate(@, loc[w].product_id, loc[w].quantity)]

\* UpsertCart that inserts the document, matched or not
InsertCart(s, doc) ==
    {[ok |-> TRUE, coll |-> cart \cup {[doc EXCEPT !._id = cartOid]}]}

\* update_one({"session_id": s}, {"$set": doc}, upsert=True) on the cart
\* collection: the possible outcomes, each the resulting collection, or a
\* write error when $set would change the _id of the matched document
UpsertCart(s, doc) ==
    IF CartsOf(s) = {}
    THEN {[ok |-> TRUE, coll |-> cart \cup
             {[doc EXCEPT !._id = IF doc._id = NoId THEN cartOid ELSE doc._id]}]}
    ELSE {IF doc._id # NoId /\ doc._id # c._id
          THEN [ok |-> FALSE, coll |-> cart]
          ELSE [ok |-> TRUE, coll |-> (cart \ {c}) \cup {[doc EXCEPT !._id = c._id]}]
          : c \in CartsOf(s)}

\* the merge loop, then cart_col.update_one(...), then return {ok, cart}
add_to_cart_update(w) ==
    /\ At(w, "add_update")
    /\ LET s == loc[w].session_id
           new == MergedCart(w)
       IN
       \E res \in UpsertCart(s, new) :
          IF ~res.ok
          THEN /\ UNCHANGED <<cart, cartOid, acked, born>>
               /\ Finish(w, Response("add", HttpServerError,
                                     "WriteError", <<>>))
          ELSE /\ cart' = res.coll
               /\ cartOid' = IF CartsOf(s) = {} /\ new._id = NoId
                             THEN cartOid + 1 ELSE cartOid
               /\ acked' = acked \cup {[session_id |-> s,
                                        product_id |-> loc[w].product_id]}
               /\ born' = IF CartsOf(s) = {}
                          THEN [born EXCEPT ![s] = @ + 1] ELSE born
               /\ Finish(w, Response("add", HttpOk, "", new))
    /\ UNCHANGED <<product, order, review, nextOid, nreq>>

\* ---------------------------------------------------------------- GET /cart
\* get_cart that stores the empty cart it makes up
GetCartCreates(w, s) ==
    /\ Free(w)
    /\ \/ /\ CartsOf(s) = {}
          /\ cart' = cart \cup {[_id |-> cartOid, session_id |-> s, items |-> <<>>]}
          /\ cartOid' = cartOid + 1
          /\ Finish(w, Response("get_cart", HttpOk, "",
                       [_id |-> NoId, session_id |-> s, items |-> <<>>]))
       \/ \E c \in CartsOf(s) :
             /\ Finish(w, Response("get_cart", HttpOk, "", c))
             /\ UNCHANGED <<cart, cartOid>>
    /\ UNCHANGED <<product, order, review, nextOid, acked, born, nreq>>

\* find_one by session_id; the document, or {session_id, items: []}
get_cart(w, s) ==
    /\ Free(w)
    /\ \/ /\ CartsOf(s) = {}
          /\ Finish(w, Response("get_cart", HttpOk, "",
                       [_id |-> NoId, session_id |-> s, items |-> <<>>]))
       \/ \E c \in CartsOf(s) :
             Finish(w, Response("get_cart", HttpOk, "", c))
    /\ UNCHANGED <<product, cart, order, review, nextOid, cartOid, acked, born, nreq>>

\* ----------------------------------------------------------- POST /checkout
\* "if not cart or not cart.get('items')" on what find_one returned
CartIsEmpty(found) == found = {} \/ \E c \in found : c.items = <<>>

\* checkout that goes on with no lines when there is no cart
CheckoutNoEmptyCheck(w, s) ==
    /\ Free(w)
    /\ nreq < MaxRequests
    /\ nreq' = nreq + 1
    /\ \/ /\ CartsOf(s) = {}
          /\ loc' = [loc EXCEPT ![w] = [NoLocal EXCEPT !.session_id = s, !.idx = 1]]
       \/ \E c \in CartsOf(s) :
            loc' = [loc EXCEPT ![w] = [NoLocal EXCEPT !.session_id = s,
                                        !.cart = c, !.idx = 1]]
    /\ Goto(w, "co_lookup")
    /\ UNCHANGED <<product, cart, order, review, nextOid, cartOid, acked, born>>

checkout(w, s) ==
    /\ Free(w)
    /\ \/ /\ CartsOf(s) = {}
          /\ Finish(w, Response("checkout", HttpBadRequest,
                                "Cart is empty", <<>>))
          /\ UNCHANGED nreq
       \/ \E c \in CartsOf(s) :
            IF CartIsEmpty({c})
            THEN /\ Finish(w, Response("checkout", HttpBadRequest, "Cart is empty", <<>>))
                 /\ UNCHANGED nreq
            ELSE /\ nreq < MaxRequests
                 /\ nreq' = nreq + 1
                 /\ loc' = [loc EXCEPT ![w] = [NoLocal EXCEPT !.session_id = s,
                                                !.cart = c, !.idx = 1]]
                 /\ Goto(w, "co_lookup")
    /\ UNCHANGED <<product, cart, order, review, nextOid, cartOid, acked, born>>

\* checkout_lookup that keeps a line without a product, at price 0
CheckoutLookupKeepsStale(w) ==
    /\ At(w, "co_lookup")
    /\ loc[w].idx <= Len(loc[w].cart.items)
    /\ LET it == loc[w].cart.items[loc[w].idx]
           price == IF it.product_id \in DOMAIN product
                    THEN product[it.product_id].price ELSE 0
       IN loc' = [loc EXCEPT
                    ![w].idx = @ + 1,
                    ![w].total = @ + price * it.quantity,
                    ![w].items = Append(@, [product_id |-> it.product_id,
                                            quantity |-> it.quantity,
                                            price |-> price])]
    /\ Goto(w, "co_lookup")
    /\ UNCHANGED <<product, cart, order, review, nextOid, cartOid, acked, born, nreq>>

\* one turn of "for it in cart['items']": look the product up, keep or drop
checkout_lookup(w) ==
    /\ At(w, "co_lookup")
    /\ loc[w].idx <= Len(loc[w].cart.items)
    /\ LET it == loc[w].cart.items[loc[w].idx] IN
       IF IsValidObjectId(it.product_id) /\ ObjectId(it.product_id) \in DOMAIN product
       THEN LET prod == ObjectId(it.product_id)
                price == product[prod].price IN
            loc' = [loc EXCEPT
                      ![w].idx = @ + 1,
                      ![w].total = @ + price * it.quantity,
                      ![w].items = Append(@, [product_id |-> Str(prod),
                                              quantity |-> it.quantity,
                                              price |-> price])]
       ELSE loc' = [loc EXCEPT ![w].idx = @ + 1]
    /\ Goto(w, "co_lookup")
    /\ UNCHANGED <<product, cart, order, review, nextOid, cartOid, acked, born, nreq>>

\* the order document checkout builds
OrderOf(w) ==
    [session_id |-> loc[w].session_id, items |-> loc[w].items,
     total |-> Round2(loc[w].total), status |-> "placed"]

\* create_document(collection, data): one document appended
create_document(coll, doc) == Append(coll, doc)

\* checkout_create that deletes the cart before it inserts the order
CheckoutCreateDeletesFirst(w) ==
    /\ At(w, "co_lookup")
    /\ loc[w].idx > Len(loc[w].cart.items)
    /\ IF loc[w].items = <<>>
       THEN /\ Finish(w, Response("checkout", HttpBadRequest,
                                  "No valid items in cart", <<>>))
            /\ UNCHANGED <<order, cart>>
       ELSE /\ cart' = cart \ CartsOf(loc[w].session_id)
            /\ \/ /\ order' = create_document(order, OrderOf(w))
                  /\ Goto(w, "co_delete")
                  /\ UNCHANGED loc
               \/ /\ Finish(w, Response("checkout", HttpServerError,
                                        "insert failed", <<>>))
                  /\ UNCHANGED order
    /\ UNCHANGED <<product, review, nextOid, cartOid, acked, born, nreq>>

\* "if not items: raise 400", else create_document("order", order)
checkout_create(w) ==
    /\ At(w, "co_lookup")
    /\ loc[w].idx > Len(loc[w].cart.items)
    /\ IF loc[w].items = <<>>
       THEN /\ Finish(w, Response("checkout", HttpBadRequest,
                                  "No valid items in cart", <<>>))
            /\ UNCHANGED order
       ELSE \/ /\ order' = create_document(order, OrderOf(w))
               /\ Goto(w, "co_delete")
               /\ UNCHANGED loc
            \/ \* the insert raises: "except Exception" turns it into a 500
               /\ Finish(w, Response("checkout", HttpServerError,
                                     "insert failed", <<>>))
               /\ UNCHANGED order
    /\ UNCHANGED <<product, cart, review, nextOid, cartOid, acked, born, nreq>>

\* checkout_delete that leaves the cart in place
CheckoutDeleteNothing(w) ==
    /\ At(w, "co_delete")
    /\ Finish(w, Response("checkout", HttpOk, "", Round2(loc[w].total)))
    /\ UNCHANGED <<product, cart, order, review, nextOid, cartOid, acked, born, nreq>>

\* db["cart"].delete_one({"session_id": ...}); return {ok, total}
checkout_delete(w) ==
    /\ At(w, "co_delete")
    /\ \/ /\ CartsOf(loc[w].session_id) = {}
          /\ UNCHANGED cart
       \/ \E c \in CartsOf(loc[w].session_id) : cart' = cart \ {c}
    /\ Finish(w, Response("checkout", HttpOk, "",
                          Round2(loc[w].total)))
    /\ UNCHANGED <<product, order, review, nextOid, cartOid, acked, born, nreq>>

\* ------------------------------------------------ GET /products/{id}
\* db["review"].find({"product_id": id}), in insertion order
ReviewsOf(id) == SelectSeq(review, LAMBDA r : r.product_id = id)

\* sum(float(r["rating"]) for r in reviews)
RECURSIVE SumRatings(_, _)
SumRatings(revs, i) ==
    IF i > Len(revs) THEN 0 ELSE revs[i].rating + SumRatings(revs, i + 1)

\* round(sum / count, 2), in hundredths of a star
Mean2(sum, count) == (200 * sum + count) \div (2 * count)

\* to_str_id(doc): the document with its _id as the string "id"
to_str_id(oid) ==
    [id |-> Str(oid), title |-> product[oid].title, price |-> product[oid].price,
     rating |-> product[oid].rating, in_stock |-> product[oid].in_stock]

\* the product with the review summary laid over it
WithSummary(prod) ==
    LET reviews == ReviewsOf(prod.id)
        count == Len(reviews)
    IN IF count # 0
       THEN [id |-> prod.id, title |-> prod.title, price |-> prod.price,
             rating |-> Mean2(SumRatings(reviews, 1), count),
             in_stock |-> prod.in_stock, reviews_count |-> count]
       ELSE prod

\* find_one by _id when the id is well-formed, else by an "id" field that
\* no stored product has; 404 without a document; else the summary
get_product(w, p) ==
    /\ Free(w)
    /\ IF IsValidObjectId(p) /\ ObjectId(p) \in DOMAIN product
       THEN Finish(w, Response("get_product", HttpOk, "",
                               WithSummary(to_str_id(ObjectId(p)))))
       ELSE Finish(w, Response("get_product", HttpNotFound,
                               "Product not found", <<>>))
    /\ UNCHANGED <<product, cart, order, review, nextOid, cartOid, acked, born, nreq>>

\* ------------------------------------------------------------ POST /reviews
\* post_review that also writes the new mean into the product document
PostReviewUpdatesRating(w, p, r) ==
    /\ Free(w)
    /\ IF IsValidObjectId(p) /\ ObjectId(p) \in DOMAIN product
       THEN /\ nreq < MaxRequests
            /\ nreq' = nreq + 1
            /\ review' = create_document(review, [product_id |-> p, rating |-> r])
            /\ product' = [product EXCEPT ![ObjectId(p)].rating = 100 * r]
            /\ Finish(w, Response("review", HttpOk, "", <<>>))
       ELSE /\ Finish(w, Response("review", HttpNotFound,
                                  "Product not found", <<>>))
            /\ UNCHANGED <<product, review, nreq>>
    /\ UNCHANGED <<cart, order, nextOid, cartOid, acked, born>>

\* 404 unless the product exists, else create_document("review", payload)
post_review(w, p, r) ==
    /\ Free(w)
    /\ IF IsValidObjectId(p) /\ ObjectId(p) \in DOMAIN product
       THEN /\ nreq < MaxRequests
            /\ nreq' = nreq + 1
            /\ review' = create_document(review, [product_id |-> p, rating |-> r])
            /\ Finish(w, Response("review", HttpOk, "", <<>>))
       ELSE /\ Finish(w, Response("review", HttpNotFound,
                                  "Product not found", <<>>))
            /\ UNCHANGED <<review, nreq>>
    /\ UNCHANGED <<product, cart, order, nextOid, cartOid, acked, born>>

\* --------------------------------------------------------------- GET /orders
\* the sequence in reverse: sort("created_at", -1) of insertion order
RECURSIVE Reverse(_)
Reverse(q) == IF q = <<>> THEN <<>> ELSE Append(Reverse(Tail(q)), Head(q))

\* get_orders that takes the orders it lists out of the collection
GetOrdersPurges(w, s) ==
    /\ Free(w)
    /\ Finish(w, Response("get_orders", HttpOk, "",
                 Reverse(SelectSeq(order, LAMBDA o : o.session_id = s))))
    /\ order' = SelectSeq(order, LAMBDA o : o.session_id # s)
    /\ UNCHANGED <<product, cart, review, nextOid, cartOid, acked, born, nreq>>

\* db["order"].find({"session_id": s}).sort("created_at", -1)
get_orders(w, s) ==
    /\ Free(w)
    /\ Finish(w, Response("get_orders", HttpOk, "",
                 Reverse(SelectSeq(order, LAMBDA o : o.session_id = s))))
    /\ UNCHANGED <<product, cart, order, review, nextOid, cartOid, acked, born, nreq>>

\* ------------------------------------------- out-of-band product edits
\* a product document is deleted from the store by an operator
AdminDeleteProduct(p) ==
    /\ Quiet
    /\ p \in DOMAIN product
    /\ product' = [id \in (DOMAIN product) \ {p} |-> product[id]]
    /\ UNCHANGED <<cart, order, review, nextOid, cartOid, pc, loc, resp, acked, born, nreq>>

\* a product's price is edited in the store by an operator
AdminSetPrice(p, c) ==
    /\ Quiet
    /\ p \in DOMAIN product
    /\ product[p].price # c
    /\ product' = [product EXCEPT ![p].price = c]
    /\ UNCHANGED <<cart, order, review, nextOid, cartOid, pc, loc, resp, acked, born, nreq>>

\* ------------------------------------------------------------ the wire
\* the client receives the response
Deliver ==
    /\ resp # NoResponse
    /\ resp' = NoResponse
    /\ UNCHANGED <<product, cart, order, review, nextOid, cartOid, pc, loc, acked, born, nreq>>

\* ------------------------------------------------------------------ Next
Next ==
    \/ \E w \in Workers : seed_products(w)
    \/ \E w \in Workers, r \in AddInputs :
          add_to_cart(w, r.product_id, r.quantity, r.session_id)
    \/ \E w \in Workers : add_to_cart_find(w)
    \/ \E w \in Workers : add_to_cart_update(w)
    \/ \E w \in Workers, s \in Sessions : get_cart(w, s)
    \/ \E w \in Workers, s \in Sessions : checkout(w, s)
    \/ \E w \in Workers : checkout_lookup(w)
    \/ \E w \in Workers : checkout_create(w)
    \/ \E w \in Workers : checkout_delete(w)
    \/ \E w \in Workers, p \in GetProductInputs : get_product(w, p)
    \/ \E w \in Workers, r \in ReviewInputs : post_review(w, r.product_id, r.rating)
    \/ \E w \in Workers, s \in Sessions : get_orders(w, s)
    \/ \E p \in AdminProducts : AdminDeleteProduct(p)
    \/ \E p \in AdminProducts, c \in AdminPrices : AdminSetPrice(p, c)
    \/ Deliver

Spec == Init /\ [][Next]_vars

\* ------------------------------------------- products and reviews alone
\* the product and review handlers under the wide review payloads; the
\* cart handlers, which read and write neither reviews nor ratings, rest
ReviewNext ==
    \/ \E w \in Workers : seed_products(w)
    \/ \E w \in Workers, p \in GetProductInputsWide : get_product(w, p)
    \/ \E w \in Workers, r \in ReviewInputsWide : post_review(w, r.product_id, r.rating)
    \/ \E p \in AdminProducts : AdminDeleteProduct(p)
    \/ Deliver

ReviewSpec == Init /\ [][ReviewNext]_vars

\* ================================================================ claims
\* the items of the cart document of session s in collection coll
StoredItems(coll, s) == (CHOOSE c \in coll : c.session_id = s).items
HasCart(coll, s) == \E c \in coll : c.session_id = s

\* worker w's add_to_cart writes the cart and returns 200 in this step
AddCommits(w) ==
    pc[w] = "add_update" /\ pc'[w] = "idle" /\ resp'.status = HttpOk

\* every line of every document of collection coll has a quantity in 1..10
QuantitiesInRange(coll) ==
    \A c \in coll : \A i \in 1..Len(c.items) :
        c.items[i].quantity >= 1 /\ c.items[i].quantity <= 10

\* C1: every line of every stored cart has a quantity in [1,10], whatever
\* quantities were sent; an add that creates a new line stores 10 for a
\* quantity above 10 (99) and 1 for a quantity of 0 or below.
C1_QuantityClamped ==
    [][ /\ QuantitiesInRange(cart')
        /\ \A w \in Workers :
             (AddCommits(w) /\ FirstIndex(loc[w].cart.items, loc[w].product_id, 1) = 0)
             => LET items == StoredItems(cart', loc[w].session_id)
                    line == items[Len(items)]
                    q == loc[w].quantity
                IN /\ line.product_id = loc[w].product_id
                   /\ (q > 10 => line.quantity = 10)
                   /\ (q < 1 => line.quantity = 1)
                   /\ (q >= 1 /\ q <= 10 => line.quantity = q)
      ]_vars

\* C1 witness: the first accepted request added quantity 99 as a new line and
\* the cart stores 10 for it
C1_Witness ==
    /\ nreq = 1
    /\ resp.op = "add" /\ resp.status = HttpOk
    /\ \E c \in cart : Len(c.items) = 1 /\ c.items[1].quantity = 10

\* the cart the claim expects from adding (p, q) to the lines old
ExpectedItems(old, new, p, q) ==
    IF \E i \in 1..Len(old) : old[i].product_id = p
    THEN /\ Len(new) = Len(old)
         /\ \A i \in 1..Len(old) :
              IF old[i].product_id = p
              THEN /\ new[i].product_id = p
                   /\ LET sum == old[i].quantity + q IN
                      new[i].quantity = IF sum > 10 THEN 10 ELSE IF sum < 1 THEN 1 ELSE sum
              ELSE new[i] = old[i]
    ELSE /\ Len(new) = Len(old) + 1
         /\ \A i \in 1..Len(old) : new[i] = old[i]
         /\ new[Len(new)].product_id = p
         /\ new[Len(new)].quantity = IF q > 10 THEN 10 ELSE IF q < 1 THEN 1 ELSE q

\* C2: a successful add-to-cart of (p, q) for session s stores, for the cart
\* the request read, the merged line max(1, min(10, old + q)) in place with
\* all other lines, their number and order unchanged, or one new line
\* (p, max(1, min(10, q))) appended at the end; the cart in the response is
\* the cart stored.
C2_AddResult ==
    [][ \A w \in Workers :
          AddCommits(w) =>
            LET s == loc[w].session_id IN
            /\ Cardinality({c \in cart' : c.session_id = s}) = 1
            /\ ExpectedItems(loc[w].cart.items, StoredItems(cart', s),
                             loc[w].product_id, loc[w].quantity)
            /\ resp'.body.session_id = s
            /\ resp'.body.items = StoredItems(cart', s)
      ]_vars

\* C2 witness: after quantities 3 and 4 of one product the cart holds one
\* line with quantity 7, and the response shows it
C2_Witness ==
    /\ nreq = 2
    /\ resp.op = "add" /\ resp.status = HttpOk
    /\ Len(resp.body.items) = 1 /\ resp.body.items[1].quantity = 7
    /\ HasCart(cart, "s1") /\ StoredItems(cart, "s1") = resp.body.items

\* C3: a product_id is in at most one line of any stored cart
C3_UniqueProductPerCart ==
    \A c \in cart : \A i, j \in 1..Len(c.items) :
        c.items[i].product_id = c.items[j].product_id => i = j

\* C3 witness: three adds, the third for a product that is already the second
\* line of the cart, leave a cart of two lines
C3_Witness ==
    /\ nreq = 3
    /\ order = <<>>
    /\ cart # {}
    /\ \A c \in cart : /\ c.session_id = "s1"
                       /\ Len(c.items) = 2
                       /\ c.items[2].product_id = 1
                       /\ c.items[2].quantity = 8
    /\ \A w \in Workers : pc[w] = "idle"

\* the steps of worker w's checkout
CheckoutLooksUp(w) ==
    pc[w] = "co_lookup" /\ pc'[w] = "co_lookup" /\ loc'[w].idx = loc[w].idx + 1
CheckoutLeavesLoop(w) == pc[w] = "co_lookup" /\ pc'[w] # "co_lookup"
CheckoutDeletes(w) == pc[w] = "co_delete" /\ pc'[w] = "idle"

\* the line worker w's checkout is looking up, and whether its product exists
CurrentLine(w) == loc[w].cart.items[loc[w].idx]
Resolves(it) == it.product_id >= 0 /\ it.product_id \in DOMAIN product

\* C4: a checkout of a cart with a resolving line succeeds (unless the insert
\* of the order raises): every resolving line is taken in cart order with the
\* cart's quantity and the product's price at that moment, exactly one order
\* of the session with these items is created, the cart is deleted, the
\* order's total is returned, and a get-cart of a session without a cart
\* returns the synthetic empty cart.
C4_CheckoutSuccess ==
    [][ \A w \in Workers :
          /\ (CheckoutLooksUp(w) /\ Resolves(CurrentLine(w)))
             => /\ loc'[w].items = Append(loc[w].items,
                       [product_id |-> CurrentLine(w).product_id,
                        quantity |-> CurrentLine(w).quantity,
                        price |-> product[CurrentLine(w).product_id].price])
                /\ order' = order
          /\ (CheckoutLeavesLoop(w) /\ loc[w].items # <<>>)
             => \/ /\ pc'[w] = "co_delete"
                   /\ Len(order') = Len(order) + 1
                   /\ SubSeq(order', 1, Len(order)) = order
                   /\ order'[Len(order')].session_id = loc[w].session_id
                   /\ order'[Len(order')].items = loc[w].items
                   /\ loc'[w] = loc[w]
                \/ /\ resp'.status = HttpServerError
                   /\ order' = order /\ cart' = cart
          /\ CheckoutDeletes(w)
             => /\ ~HasCart(cart', loc[w].session_id)
                /\ order' = order
                /\ resp'.op = "checkout" /\ resp'.status = HttpOk
                /\ \E i \in 1..Len(order) :
                      /\ order[i].session_id = loc[w].session_id
                      /\ order[i].items = loc[w].items
                      /\ order[i].total = resp'.body
          /\ \A s \in Sessions :
               (get_cart(w, s) /\ ~HasCart(cart, s))
               => resp'.body = [_id |-> NoId, session_id |-> s, items |-> <<>>]
      ]_vars

\* C4 witness: an add and a checkout were the only requests accepted, the
\* order of s1 exists, and a get-cart of s1 has just returned the synthetic cart
C4_Witness ==
    /\ nreq = 2
    /\ Len(order) = 1 /\ order[1].session_id = "s1"
    /\ resp.op = "get_cart"
    /\ resp.body = [_id |-> NoId, session_id |-> "s1", items |-> <<>>]
    /\ \A w \in Workers : pc[w] = "idle"

\* C5: a checkout of a session with no cart document, or with a cart of zero
\* items, fails with 400 "Cart is empty" and leaves the order collection as
\* it was.
C5_EmptyCartRejected ==
    [][ \A w \in Workers, s \in Sessions :
          (checkout(w, s) /\ (~HasCart(cart, s) \/ \E c \in CartsOf(s) : c.items = <<>>))
          => /\ resp' = Response("checkout", HttpBadRequest, "Cart is empty", <<>>)
             /\ order' = order
             /\ cart' = cart
      ]_vars

\* C5 witness: after an order was placed, a checkout is refused with
\* "Cart is empty" while no cart exists
C5_Witness ==
    /\ resp.op = "checkout" /\ resp.status = HttpBadRequest
    /\ resp.detail = "Cart is empty"
    /\ cart = {}
    /\ Len(order) = 1

\* C6: a line whose product no longer resolves is dropped without an error
\* and the loop goes on; when every line was dropped the checkout fails with
\* 400 "No valid items in cart" and no order is created; otherwise the order
\* holds the kept lines only.
C6_StaleLinesDropped ==
    [][ \A w \in Workers :
          /\ (pc[w] = "co_lookup" /\ loc[w].idx <= Len(loc[w].cart.items)
                /\ ~Resolves(CurrentLine(w)) /\ loc'[w] # loc[w])
             => /\ loc'[w].items = loc[w].items
                /\ loc'[w].total = loc[w].total
                /\ loc'[w].idx = loc[w].idx + 1
                /\ pc'[w] = "co_lookup"
                /\ resp' = NoResponse
                /\ order' = order
          /\ (CheckoutLeavesLoop(w) /\ loc[w].items = <<>>)
             => /\ resp' = Response("checkout", HttpBadRequest,
                                    "No valid items in cart", <<>>)
                /\ order' = order
          /\ (CheckoutLeavesLoop(w) /\ pc'[w] = "co_delete")
             => /\ loc[w].items # <<>>
                /\ Len(loc[w].items) <= Len(loc[w].cart.items)
                /\ order'[Len(order')].items = loc[w].items
      ]_vars

\* C6 witness: a checkout read a cart of two lines, dropped the line of the
\* deleted product 1 and created an order with the other line
C6_Witness ==
    \E w \in Workers :
        /\ pc[w] = "co_delete"
        /\ Len(loc[w].cart.items) = 2
        /\ \E i \in 1..2 : loc[w].cart.items[i].product_id = 1
        /\ 1 \notin DOMAIN product
        /\ Len(order) = 1
        /\ Len(order[1].items) = 1 /\ order[1].items[1].product_id = 2

\* sum of price x quantity over the items from position i on
RECURSIVE SumFrom(_, _)
SumFrom(items, i) ==
    IF i > Len(items) THEN 0
    ELSE items[i].price * items[i].quantity + SumFrom(items, i + 1)

\* an order as the claim describes it: placed, not empty, a total of two
\* decimals that is the nearest to the sum of price x quantity
OrderWellFormed(o) ==
    /\ o.status = "placed"
    /\ Len(o.items) >= 1
    /\ o.total % 10 = 0
    /\ o.total - SumFrom(o.items, 1) <= 5
    /\ SumFrom(o.items, 1) - o.total < 5

\* C7: every stored order has status "placed", at least one item and a total
\* equal to the sum of price x quantity rounded to 2 decimals, each price
\* being the product's price when the checkout looked the product up.
C7_OrderTotals ==
    [][ /\ \A i \in 1..Len(order') : OrderWellFormed(order'[i])
        /\ \A w \in Workers :
             (CheckoutLooksUp(w) /\ Len(loc'[w].items) > Len(loc[w].items))
             => loc'[w].items[Len(loc'[w].items)].price
                   = product[CurrentLine(w).product_id].price
      ]_vars

\* C7 witness: an order whose sum has a third decimal, so that the total
\* differs from the plain sum
C7_Witness ==
    \E i \in 1..Len(order) : order[i].total # SumFrom(order[i].items, 1)

\* C8: add-to-cart replaces the whole cart document by the copy the request
\* read, with no check that the stored document still is that copy: what it
\* stores holds the request's own line and lines of its copy, nothing else,
\* so an interleaving exists in which two adds of one session both return
\* 200 and the stored cart has the last writer's change only.
C8_LastWriterWins ==
    [][ \A w \in Workers :
          AddCommits(w) =>
            LET new == StoredItems(cart', loc[w].session_id)
                read == loc[w].cart.items
            IN \A i \in 1..Len(new) :
                  \/ new[i].product_id = loc[w].product_id
                  \/ i <= Len(read) /\ new[i] = read[i]
      ]_vars

\* C8 witness: two adds of session s1, of two products, were acknowledged
\* and nothing else was accepted, yet the stored cart of s1 has one line
C8_Witness ==
    /\ nreq = 2
    /\ \A w \in Workers : pc[w] = "idle"
    /\ resp.op = "add" /\ resp.status = HttpOk
    /\ Cardinality({a \in acked : a.session_id = "s1"}) = 2
    /\ HasCart(cart, "s1")
    /\ Len(StoredItems(cart, "s1")) = 1

\* a seed call answers in this step
SeedAnswers == resp = NoResponse /\ resp'.op = "seed"

C10_SeededReportsInsertion ==
    [][ SeedAnswers =>
          /\ resp'.body.seeded = (product' # product)
          /\ resp'.body.count = Cardinality(DOMAIN product')
      ]_vars

\* a get-cart call answers in this step
GetCartAnswers == resp = NoResponse /\ resp'.op = "get_cart"

\* C11: a get-cart for session s returns the stored cart of s if there is
\* one and the synthetic cart {session_id: s, items: []} otherwise, and
\* leaves the cart, order, product and review collections unchanged: a
\* session without a cart has none afterwards.
C11_GetCartReadOnly ==
    [][ GetCartAnswers =>
          LET s == resp'.body.session_id IN
          /\ resp'.status = HttpOk
          /\ IF HasCart(cart, s)
             THEN resp'.body \in cart
             ELSE /\ resp'.body = [_id |-> NoId, session_id |-> s, items |-> <<>>]
                  /\ ~HasCart(cart', s)
          /\ cart' = cart /\ order' = order
          /\ product' = product /\ review' = review
      ]_vars

\* C11 witness: while s1 has a stored cart, a get-cart of s2 has returned
\* the synthetic cart and s2 still has no cart document
C11_Witness ==
    /\ resp.op = "get_cart"
    /\ resp.body = [_id |-> NoId, session_id |-> "s2", items |-> <<>>]
    /\ HasCart(cart, "s1") /\ ~HasCart(cart, "s2")
    /\ Cardinality(cart) = 1

\* the product_id string p names a stored product
Exists(p) == p >= 0 /\ \E id \in DOMAIN product : ObjectId(p) = id

\* an add-to-cart is answered by the step that took the request
AddAnswersAtOnce == resp = NoResponse /\ resp'.op = "add" /\ pc' = pc

\* worker w's add-to-cart passes the product check in this step
AddAccepted(w) == pc[w] = "idle" /\ pc'[w] = "add_find_cart"

\* C12: an add-to-cart whose product_id is malformed or names no stored
\* product answers 404 "Product not found" at once and changes nothing: the
\* cart collection, with the session's cart if it has one, the orders, the
\* products and the reviews are as before, and nothing is acknowledged.
\* Only a request whose product exists goes on to the cart.
C12_AddUnknownProduct ==
    [][ /\ AddAnswersAtOnce
           => /\ resp' = Response("add", HttpNotFound, "Product not found", <<>>)
              /\ cart' = cart /\ order' = order
              /\ product' = product /\ review' = review
              /\ acked' = acked
        /\ \A w \in Workers : AddAccepted(w) => Exists(loc'[w].product_id)
      ]_vars

\* C12 witness: with products seeded and a cart stored for each session, an
\* add-to-cart has been refused with 404 and both carts are still there
C12_Witness ==
    /\ resp = Response("add", HttpNotFound, "Product not found", <<>>)
    /\ DOMAIN product # {}
    /\ HasCart(cart, "s1") /\ HasCart(cart, "s2")
    /\ \A w \in Workers : pc[w] = "idle"

\* the cart documents of session s in collection coll
DocsOf(coll, s) == {c \in coll : c.session_id = s}

\* C13: the cart collection never holds two documents of one session_id.
\* A successful add-to-cart for a session without a document creates one;
\* for a session with a document it replaces that document, which keeps its
\* _id; this holds too when the adds of one session interleave.
C13_OneCartPerSession ==
    [][ /\ \A s \in Sessions : Cardinality(DocsOf(cart', s)) <= 1
        /\ \A w \in Workers :
             AddCommits(w) =>
               LET s == loc[w].session_id IN
               /\ Cardinality(DocsOf(cart', s)) = 1
               /\ \A c \in DocsOf(cart, s), d \in DocsOf(cart', s) : d._id = c._id
               /\ Cardinality(cart') =
                     Cardinality(cart) + (IF DocsOf(cart, s) = {} THEN 1 ELSE 0)
               /\ \A t \in Sessions \ {s} : DocsOf(cart', t) = DocsOf(cart, t)
      ]_vars

\* C13 witness: two adds of s1 were acknowledged, the one answered last had
\* found no cart when it read, and the store has made one cart document
C13_Witness ==
    /\ resp.op = "add" /\ resp.status = HttpOk
    /\ resp.body.session_id = "s1" /\ resp.body._id = NoId
    /\ Cardinality({a \in acked : a.session_id = "s1"}) = 2
    /\ Cardinality(cart) = 1
    /\ cartOid = 2

\* C14: an order document, once created, is never modified or deleted: in
\* every step of every request the order collection keeps all its documents
\* as they are, and it changes only by the one document a checkout appends.
C14_OrdersPermanent ==
    [][ /\ Len(order') >= Len(order)
        /\ SubSeq(order', 1, Len(order)) = order
        /\ order' # order
           => /\ Len(order') = Len(order) + 1
              /\ \E w \in Workers : pc[w] = "co_lookup" /\ pc'[w] = "co_delete"
      ]_vars

\* C14 witness: after a checkout and a further add-to-cart of the same
\* session, a list of that session's orders shows the one order stored
C14_Witness ==
    /\ nreq = 3
    /\ Len(order) = 1
    /\ HasCart(cart, order[1].session_id)
    /\ resp.op = "get_orders"
    /\ resp.body = <<order[1]>>

\* a step that is no handler's: no worker moves and no response is sent
OutOfBand == pc' = pc /\ loc' = loc /\ resp' = resp

\* C15: of all operations only a seed call on an empty collection changes
\* the product collection: every step of post-review, get-product,
\* add-to-cart, get-cart, checkout and list-orders leaves every product
\* document, its rating and in_stock included, as it was.
C15_OnlySeedWritesProducts ==
    [][ product' # product
        => \/ SeedAnswers /\ DOMAIN product = {}
           \/ OutOfBand
      ]_vars

\* C15 witness: a review of product 1 is stored and an order was placed, a
\* get-product has answered with the mean of the reviews, which is not the
\* stored rating, and the product document is the seeded one still
C15_Witness ==
    /\ resp.op = "get_product" /\ resp.status = HttpOk
    /\ review # <<>> /\ order # <<>>
    /\ 1 \in DOMAIN product
    /\ product[1] = DemoProducts[1]
    /\ resp.body.rating # product[1].rating

\* a get-product call answers with a product in this step
GetProductAnswers ==
    resp = NoResponse /\ resp'.op = "get_product" /\ resp'.status = HttpOk

\* the reviews whose submission for product oid was accepted: post_review
\* accepts a review when its product_id parses to the _id of a product
SubmittedFor(oid) ==
    SelectSeq(review, LAMBDA r : r.product_id >= 0 /\ ObjectId(r.product_id) = oid)

\* m hundredths is sum / n rounded to 2 decimals
IsMean2(m, sum, n) == 2 * m * n - 200 * sum <= n /\ 200 * sum - 2 * m * n <= n

\* C16: get-product returns the stored rating and no reviews_count for a
\* product without reviews; for a product with n >= 1 reviews it returns
\* their arithmetic mean rounded to 2 decimals as rating and n as
\* reviews_count, so that every review whose submission for the product
\* succeeded is counted.
C16_RatingSummary ==
    [][ GetProductAnswers =>
          LET oid == resp'.body.id
              submitted == SubmittedFor(oid)
              n == Len(submitted)
          IN IF n = 0
             THEN /\ resp'.body.rating = product[oid].rating
                  /\ "reviews_count" \notin DOMAIN resp'.body
             ELSE /\ "reviews_count" \in DOMAIN resp'.body
                  /\ resp'.body.reviews_count = n
                  /\ IsMean2(resp'.body.rating, SumRatings(submitted, 1), n)
      ]_vars

\* a checkout is answered with an error in this step
CheckoutFails ==
    /\ resp = NoResponse
    /\ resp'.op = "checkout"
    /\ resp'.status \in {HttpBadRequest, HttpServerError}

\* the order of session s that worker w's checkout has built is stored
OrderStored(w, s) ==
    \E i \in 1..Len(order) :
        order[i].session_id = s /\ order[i].items = loc[w].items

\* C17: a checkout that fails, on an empty cart, on a cart whose lines are
\* all stale or on an insert of the order that raises, leaves the cart
\* collection as it was; a cart document leaves the collection only in the
\* delete step of a checkout of its session, when that checkout's order is
\* stored already.
C17_FailedCheckoutKeepsCart ==
    [][ /\ CheckoutFails => cart' = cart /\ order' = order
        /\ \A c \in cart \ cart' :
             \/ c.session_id \in {d.session_id : d \in cart' \ cart}
             \/ \E w \in Workers :
                   /\ CheckoutDeletes(w)
                   /\ loc[w].session_id = c.session_id
                   /\ OrderStored(w, c.session_id)
        /\ \A w \in Workers :
             pc'[w] = "co_delete" => \E i \in 1..Len(order') : order'[i] = OrderOf(w)'
      ]_vars

\* C17 witness: the insert of the order has raised, the checkout was
\* answered 500, no order exists and the cart is stored still
C17_Witness ==
    /\ resp = Response("checkout", HttpServerError, "insert failed", <<>>)
    /\ order = <<>>
    /\ cart # {}
    /\ \A c \in cart : c.items # <<>>
    /\ \A w \in Workers : pc[w] = "idle"

\* worker w's handler, serving a request of session s, writes or deletes the
\* cart in this step
WritesCartFor(w, s) ==
    /\ pc[w] \in {"add_update", "co_delete"}
    /\ pc'[w] = "idle"
    /\ loc[w].session_id = s

\* the line it of an order is a line of the cart items lines
FromCart(it, lines) ==
    \E i \in 1..Len(lines) :
        /\ lines[i].product_id >= 0
        /\ ObjectId(lines[i].product_id) = it.product_id
        /\ lines[i].quantity = it.quantity

\* C18: the cart documents of a session change only in a step of an
\* add-to-cart or checkout of that session, and never in a get-cart; every
\* stored line was acknowledged to its own session; an order a checkout
\* creates has the session_id of the request and items that are lines of
\* the cart the checkout read, which is a cart of that session.
C18_SessionsIsolated ==
    [][ /\ \A s \in Sessions :
             DocsOf(cart', s) # DocsOf(cart, s) => \E w \in Workers : WritesCartFor(w, s)
        /\ \A w \in Workers :
             (pc[w] # "idle" /\ pc'[w] # "idle") => loc'[w].session_id = loc[w].session_id
        /\ \A c \in cart' : \A i \in 1..Len(c.items) :
             [session_id |-> c.session_id, product_id |-> c.items[i].product_id] \in acked'
        /\ \A w \in Workers :
             (CheckoutLeavesLoop(w) /\ order' # order)
             => LET o == order'[Len(order')] IN
                /\ o.session_id = loc[w].session_id
                /\ loc[w].cart.session_id = loc[w].session_id
                /\ \A i \in 1..Len(o.items) : FromCart(o.items[i], loc[w].cart.items)
      ]_vars

\* C18 witness: both sessions had a cart, s1 has checked out, and the cart
\* of s2 is stored with the one line s2 added
C18_Witness ==
    /\ nreq = 3
    /\ resp.op = "checkout" /\ resp.status = HttpOk
    /\ Len(order) = 1 /\ order[1].session_id = "s1"
    /\ ~HasCart(cart, "s1")
    /\ HasCart(cart, "s2") /\ Len(StoredItems(cart, "s2")) = 1

\* the orders of session s
OrdersOf(s) == SelectSeq(order, LAMBDA o : o.session_id = s)

\* C19: a cart is turned into at most one order: a session never has more
\* orders than the number of times its cart went from absent to present.
C19_OneOrderPerCart ==
    \A s \in Sessions : Len(OrdersOf(s)) <= born[s]

\* an order of session s has a line for the product that product_id p names
Ordered(s, p) ==
    \E k \in 1..Len(order) :
        /\ order[k].session_id = s
        /\ \E j \in 1..Len(order[k].items) :
              order[k].items[j].product_id = ObjectId(p)

\* C20: a checkout loses no acknowledged line: every line of a cart
\* document that a checkout deletes (each stored line was acknowledged by
\* the add-to-cart that wrote it), if its product exists, is a line of an
\* order of that session.
C20_NoAckedLineLost ==
    [][ \A w \in Workers :
          CheckoutDeletes(w) =>
            \A c \in cart \ cart' : \A i \in 1..Len(c.items) :
               /\ [session_id |-> c.session_id,
                   product_id |-> c.items[i].product_id] \in acked
               /\ Exists(c.items[i].product_id)
                     => Ordered(c.session_id, c.items[i].product_id)
      ]_vars

====
